---- MODULE Spec2Model ----
(***************************************************************************)
(* Model of the firescript runtime support layer:                          *)
(*   - firescript/runtime/runtime.c : reference-counted boxes, the         *)
(*     allocation tracker (registry of heap pointers) and its shutdown     *)
(*     sweep;                                                              *)
(*   - firescript/runtime/varray.c  : the growable type-erased array;      *)
(* and of the comment scanner of the front end, src/lexer.cpp.             *)
(*                                                                         *)
(* The C heap is modelled explicitly: every block has an address, a live   *)
(* flag and a count of the free() calls made on it since malloc returned   *)
(* it, so that a double free or an access to a freed block is a fact of    *)
(* the state and not an assumption.                                        *)
(***************************************************************************)
EXTENDS Integers, Sequences, FiniteSets, TLC

(***************************************************************************)
(* Bounds of the model.                                                    *)
(***************************************************************************)
NumBoxAddrs == 2       \* addresses malloc may return for a RefCountedObject
NumDataAddrs == 2      \* addresses malloc/strdup may return for byte blocks
NumNodeAddrs == 2      \* addresses malloc may return for a PtrNode
MaxRetains == 2        \* retains made on one box while references to it are held
MaxInitCapacity == 5   \* largest capacity passed to varray_create
MaxCapacity == 8       \* append/insert are called while the grown capacity is <= this
NumStrAddrs == 3       \* addresses of each kind (box, payload) in the string runs
MaxTextLen == 2        \* strings are concatenated while the result is no longer
MaxInputLen == 6       \* longest text given to the Lexer
NumSharedAddrs == 3    \* addresses of the heap that boxes, payloads and tracked
                       \* blocks are all allocated from in the combined runs

NULL == 0

BoxAddrs == 1..NumBoxAddrs
DataAddrs == (NumBoxAddrs + 1)..(NumBoxAddrs + NumDataAddrs)
NodeAddrs == (NumBoxAddrs + NumDataAddrs + 1)..(NumBoxAddrs + NumDataAddrs + NumNodeAddrs)
\* the address of an object that no malloc returned (a string literal)
StaticAddr == NumBoxAddrs + NumDataAddrs + NumNodeAddrs + 1
\* the part of the heap the string operations are run in
StrBoxAddrs == (StaticAddr + 1)..(StaticAddr + NumStrAddrs)
StrDataAddrs == (StaticAddr + NumStrAddrs + 1)..(StaticAddr + 2 * NumStrAddrs)
\* the part of the heap the combined runs of boxes and tracker use: one malloc
\* serves every request, so a block freed as a box can come back as a
\* tracked block or a payload and the other way round
SharedAddrs == (StaticAddr + 2 * NumStrAddrs + 1)..(StaticAddr + 2 * NumStrAddrs + NumSharedAddrs)
AllBoxAddrs == BoxAddrs \cup StrBoxAddrs \cup SharedAddrs
AllDataAddrs == DataAddrs \cup StrDataAddrs \cup SharedAddrs
Addrs == AllBoxAddrs \cup AllDataAddrs \cup NodeAddrs \cup {StaticAddr}

\* texts passed to strdup / firescript_create_string
Texts == {<<>>, <<"a">>, <<"b">>}

\* the two destructors a box is created with in runtime.c: none, or string_destructor
NoDestructor == "NULL"
StringDestructor == "string_destructor"
Destructors == {NoDestructor, StringDestructor}

\* values a read of a freed (indeterminate) ref_count field may produce
UBReads == {0, 1, 2}

VARIABLES
    heap,      \* [Addrs -> {"unused", "live", "freed"}] : the C heap
    mem,       \* [AllDataAddrs -> [kind, s]] : contents of byte blocks
    box,       \* [AllBoxAddrs -> [data, ref_count, destructor]] : RefCountedObject fields
    hist,      \* [AllBoxAddrs -> [destructor, refs, dtorCalls]] : the calls made on a
               \* box since the create call that returned it (dtorCalls counts the
               \* invocations of its destructor: 0, 1, or 2 for two or more)
    misuse,    \* TRUE once a box call was made on a handle with no outstanding reference
    fault,     \* the memory errors committed so far: a subset of Faults
    g_ptrs,    \* head of the tracker's registry list (a PtrNode address or NULL)
    node,      \* [NodeAddrs -> [p, next]] : PtrNode fields
    va,        \* the VArray: [exists, size, capacity, elem_size, data]
    lexer,     \* the Lexer: [at, input, index, tokens, errors]; at is the position
               \* of its caller: before the constructor, before or in the loop
               \* of lex(), or after lex() returned
    ev         \* the last call: [op, arg, txt, ret, aux].  For malloc/strdup ret is
               \* the pointer returned and aux the PtrNode allocated; for free arg
               \* is the pointer and ret what registry_remove returned; for cleanup
               \* ret is the number of nodes the list held; for an array call
               \* arg is the index, ret the element (for varray_remove, which
               \* takes none, the capacity it found) and aux is 0 when an
               \* allocation made by the call failed, 1 otherwise.

vars == <<heap, mem, box, hist, misuse, fault, g_ptrs, node, va, lexer, ev>>

(***************************************************************************)
(* The C heap: malloc / free.  A block is "unused" (never returned),       *)
(* "live" or "freed".  Two memory errors are recorded in fault when they   *)
(* happen: a read or write of a block that is not live, and a free() of a  *)
(* block that is not live (a double free, or a free of something malloc    *)
(* never returned).                                                        *)
(***************************************************************************)
UseAfterFree == "use_after_free"
BadFree == "bad_free"
Faults == {UseAfterFree, BadFree}

\* what malloc may return from a pool: NULL (exhaustion), any block freed
\* earlier (handed out again), or a block never used before.  Never-used
\* blocks are interchangeable, so the lowest one stands for all of them.
FreshBlock(h, pool) ==
    LET unused == {a \in pool : h[a] = "unused"}
    IN  {a \in unused : \A c \in unused : a <= c}

MallocResults(h, pool) ==
    {NULL} \cup {a \in pool : h[a] = "freed"} \cup FreshBlock(h, pool)

\* the heap after malloc returned a (NULL: nothing changes)
Malloc(h, a) == IF a = NULL THEN h ELSE [h EXCEPT ![a] = "live"]

\* the heap after free(a); free(NULL) is a no-op
Free(h, a) == IF a = NULL THEN h ELSE [h EXCEPT ![a] = "freed"]

\* the error free(a) commits on heap h
FreeFault(h, a) == IF a # NULL /\ h[a] # "live" THEN {BadFree} ELSE {}

\* the error a read or write of *a commits on heap h
AccessFault(h, a) == IF h[a] # "live" THEN {UseAfterFree} ELSE {}

\* a C string argument: a null pointer, or a pointer to the text s
NullString == [null |-> TRUE, s |-> <<>>]
CStrings == {NullString} \cup {[null |-> FALSE, s |-> t] : t \in Texts}

Event(op, arg, txt, ret, aux) ==
    [op |-> op, arg |-> arg, txt |-> txt, ret |-> ret, aux |-> aux]

NoBox == [data |-> NULL, ref_count |-> 0, destructor |-> NoDestructor]
NoHist == [destructor |-> NoDestructor, refs |-> 0, dtorCalls |-> 0]
NoMem == [kind |-> "none", s |-> <<>>]
NoNode == [p |-> NULL, next |-> NULL]
\* no array: before varray_create, after varray_free, and what a failed
\* varray_create or varray_resize returns (NULL)
NoArray == [exists |-> FALSE, size |-> 0, capacity |-> 0, elem_size |-> 0, data |-> <<>>]

\* no Lexer: before the constructor ran
NoLexer == [at |-> "none", input |-> <<>>, index |-> 0, tokens |-> <<>>, errors |-> 0]

\* the bytes of a freed block are indeterminate: the model drops them
ScrubMem(m, h) == [a \in AllDataAddrs |-> IF h[a] = "live" THEN m[a] ELSE NoMem]
ScrubBox(b, h) == [a \in AllBoxAddrs |-> IF h[a] = "live" THEN b[a] ELSE NoBox]
ScrubNode(nd, h) == [a \in NodeAddrs |-> IF h[a] = "live" THEN nd[a] ELSE NoNode]

Init ==
    /\ heap = [a \in Addrs |-> "unused"]
    /\ mem = [a \in AllDataAddrs |-> NoMem]
    /\ box = [a \in AllBoxAddrs |-> NoBox]
    /\ hist = [a \in AllBoxAddrs |-> NoHist]
    /\ misuse = FALSE
    /\ fault = {}
    /\ g_ptrs = NULL
    /\ node = [n \in NodeAddrs |-> NoNode]
    /\ va = NoArray
    /\ lexer = NoLexer
    /\ ev = Event("init", NULL, NullString, NULL, NULL)

(***************************************************************************)
(* Shared value box: runtime.c, create_ref_counted_object /                *)
(* increment_ref_count / decrement_ref_count / string_destructor.          *)
(*                                                                         *)
(* ref_count is a size_t.  Its arithmetic is modulo 2^64; the model keeps  *)
(* the representative nearest zero, so a count that wraps below zero shows *)
(* as -1 (which, like 2^64-1, is different from 0 and becomes 0 when       *)
(* incremented).                                                           *)
(***************************************************************************)
\* the event every box call leaves (the box calls are told apart by hist)
BoxEvent == Event("box", NULL, NullString, NULL, NULL)

\* hist[a].refs is 1 + (retains so far) - (releases so far) for the box at a:
\* the references its callers hold, by their own accounting.  Once it is 0 the
\* callers have given up the box (Gone), and a later call on the handle is
\* counted in misuse instead.
Created(a) == heap[a] # "unused"
Gone(a) == Created(a) /\ hist[a].refs = 0

\* handles a caller can pass: NULL, or an address some create call returned
Handles == {NULL} \cup {a \in BoxAddrs : Created(a)}

\* faulty variant: the count starts at 0
NewBox_ZeroCount(data, destructor) ==
    [data |-> data, ref_count |-> 0, destructor |-> destructor]

\* RefCountedObject as written by create_ref_counted_object
NewBox(data, destructor) ==
    [data |-> data, ref_count |-> 1, destructor |-> destructor]

\* create_ref_counted_object(data, destructor), run on heap h with its malloc
\* drawing from pool; obj is what that malloc returned (NULL: the function
\* returns NULL and writes nothing)
CreateBoxIn(pool, h, obj, data, destructor) ==
    /\ obj \in MallocResults(h, pool)
    /\ heap' = Malloc(h, obj)
    /\ box' = IF obj = NULL THEN box
              ELSE [box EXCEPT ![obj] = NewBox(data, destructor)]
    /\ hist' = IF obj = NULL THEN hist
               ELSE [hist EXCEPT ![obj] = [destructor |-> destructor, refs |-> 1,
                                           dtorCalls |-> 0]]

create_ref_counted_object(h, obj, data, destructor) ==
    CreateBoxIn(BoxAddrs, h, obj, data, destructor)

\* a direct call create_ref_counted_object(NULL, destructor)
CreateObject ==
    \E obj \in BoxAddrs \cup {NULL}, d \in Destructors :
        /\ create_ref_counted_object(heap, obj, NULL, d)
        /\ ev' = BoxEvent
        /\ UNCHANGED <<mem, misuse, fault, g_ptrs, node, va, lexer>>

\* what strdup(str ? str : "") copies
StrdupText(str) == IF str.null THEN <<>> ELSE str.s

\* firescript_create_string(str), str one of strs: strdup, then
\* create_ref_counted_object
CreateStringFrom(strs) ==
    \E str \in strs, copy \in MallocResults(heap, DataAddrs) :
        IF copy = NULL
        THEN /\ ev' = BoxEvent
             /\ UNCHANGED <<heap, mem, box, hist, misuse, fault, g_ptrs, node, va, lexer>>
        ELSE \E obj \in BoxAddrs \cup {NULL} :
             /\ create_ref_counted_object(Malloc(heap, copy), obj, copy, StringDestructor)
             /\ mem' = [mem EXCEPT ![copy] = [kind |-> "str", s |-> StrdupText(str)]]
             /\ ev' = BoxEvent
             /\ UNCHANGED <<misuse, fault, g_ptrs, node, va, lexer>>

firescript_create_string == CreateStringFrom(CStrings)

\* a call on obj made after its callers released every reference they held
MisuseAfter(obj) == misuse \/ Gone(obj)

\* increment_ref_count(obj)
increment_ref_count ==
    \E obj \in Handles :
        IF obj = NULL
        THEN /\ ev' = BoxEvent
             /\ UNCHANGED <<heap, mem, box, hist, misuse, fault, g_ptrs, node, va, lexer>>
        ELSE /\ ~Gone(obj) => hist[obj].refs <= MaxRetains
             /\ box' = IF heap[obj] = "live"
                       THEN [box EXCEPT ![obj].ref_count = @ + 1]
                       ELSE box          \* a write into a freed block
             /\ fault' = fault \cup AccessFault(heap, obj)
             /\ hist' = IF Gone(obj) THEN hist
                        ELSE [hist EXCEPT ![obj].refs = @ + 1]
             /\ misuse' = MisuseAfter(obj)
             /\ ev' = BoxEvent
             /\ UNCHANGED <<heap, mem, g_ptrs, node, va, lexer>>

\* faulty variant: obj->ref_count-- == 0 (the count is compared before it is decremented)
DropsToZero_PostDecrement(count) == count = 0

\* faulty variant: the box is destroyed when the count drops to 1 or less
DropsToZero_Early(count) == count - 1 <= 1

\* --obj->ref_count == 0
DropsToZero(count) == count - 1 = 0

\* string_destructor(str): the block it passes to free (NULL: none)
string_destructor(str) == IF str # NULL THEN str ELSE NULL

\* the block a destructor d, invoked on data, passes to free (NULL: none)
DestructorFrees(d, data) ==
    IF d = StringDestructor THEN string_destructor(data) ELSE NULL

\* what a read of a field of *obj yields: the stored value for a live box, any
\* value for a freed one
ReadRefCount(obj) == IF heap[obj] = "live" THEN {box[obj].ref_count} ELSE UBReads
ReadDestructor(obj) == IF heap[obj] = "live" THEN {box[obj].destructor} ELSE Destructors
ReadData(obj) == IF heap[obj] = "live" THEN {box[obj].data} ELSE {NULL} \cup DataAddrs

\* the effect of decrement_ref_count(obj), obj not NULL, that read count from
\* obj->ref_count; when the count dropped to zero it read destructor d, and
\* when d is not NULL it invoked d on the data it read
decrement_effect(obj, count, fires, d, data) ==
    LET invoked == fires /\ d # NoDestructor
        payload == IF invoked THEN DestructorFrees(d, data) ELSE NULL
        h1 == Free(heap, payload)
        h2 == IF fires THEN Free(h1, obj) ELSE h1
    IN  /\ heap' = h2
        /\ mem' = ScrubMem(mem, h2)
        /\ box' = ScrubBox(IF heap[obj] = "live"
                           THEN [box EXCEPT ![obj].ref_count = count - 1]
                           ELSE box, h2)
        /\ fault' = fault \cup AccessFault(heap, obj) \cup FreeFault(heap, payload)
                           \cup (IF fires THEN FreeFault(h1, obj) ELSE {})
        /\ hist' = [hist EXCEPT ![obj].refs = IF Gone(obj) THEN 0 ELSE @ - 1,
                                ![obj].dtorCalls = IF invoked /\ @ < 2 THEN @ + 1 ELSE @]
        /\ misuse' = MisuseAfter(obj)
        /\ ev' = BoxEvent

\* decrement_ref_count(obj), obj one of handles
DecrementIn(handles) ==
    \E obj \in handles :
        IF obj = NULL
        THEN /\ ev' = BoxEvent
             /\ UNCHANGED <<heap, mem, box, hist, misuse, fault, g_ptrs, node, va, lexer>>
        ELSE /\ \E count \in ReadRefCount(obj) :
                  IF ~DropsToZero(count)
                  THEN decrement_effect(obj, count, FALSE, NoDestructor, NULL)
                  ELSE \E d \in ReadDestructor(obj) :
                         IF d = NoDestructor
                         THEN decrement_effect(obj, count, TRUE, d, NULL)
                         ELSE \E data \in ReadData(obj) :
                                decrement_effect(obj, count, TRUE, d, data)
             /\ UNCHANGED <<g_ptrs, node, va, lexer>>

decrement_ref_count == DecrementIn(Handles)

\* A call that commits a memory error has undefined behaviour: the model records
\* the error and the outcome of that call, and follows the run no further.
Running == fault = {}

NextBox ==
    \/ Running /\ CreateObject
    \/ Running /\ firescript_create_string
    \/ Running /\ increment_ref_count
    \/ Running /\ decrement_ref_count

SpecBox == Init /\ [][NextBox]_vars

(***************************************************************************)
(* decrement_ref_count, statement by statement.  The runs of SpecRelease   *)
(* follow one release through its three statements; ev holds the position *)
(* of the call (op), its argument (arg), whether it has invoked the        *)
(* destructor (ret: 1 or 0) and the payload it passed to it (aux).  The    *)
(* callers of these runs release only references they hold.                *)
(***************************************************************************)
AtDestructorTest == "decrement_ref_count:95"   \* before if (obj->destructor)
AtFreeBox == "decrement_ref_count:99"          \* before free(obj)
Returned == "decrement_ref_count:return"       \* the call has returned

\* a release is between two of its statements
InRelease == ev.op \in {AtDestructorTest, AtFreeBox}

\* faulty variant: the destructor is skipped
AfterZero_SkipDestructor == AtFreeBox

\* where the call goes when --obj->ref_count == 0 holds: into the if body
AfterZero == AtDestructorTest

\* faulty variant: the box is left allocated
AfterDestructor_NoFree == Returned

\* where the call goes after the destructor test: free(obj)
AfterDestructor == AtFreeBox

\* the boxes a caller holds a reference to
HeldHandles == {a \in BoxAddrs : heap[a] = "live" /\ hist[a].refs >= 1}

\* decrement_ref_count(obj), line 93: obj && --obj->ref_count == 0
ReleaseEnter ==
    /\ ~InRelease
    /\ \E obj \in {NULL} \cup HeldHandles :
          IF obj = NULL
          THEN /\ ev' = Event(Returned, NULL, NullString, 0, NULL)
               /\ UNCHANGED <<heap, mem, box, hist, misuse, fault, g_ptrs, node, va, lexer>>
          ELSE LET count == box[obj].ref_count
               IN  /\ box' = [box EXCEPT ![obj].ref_count = count - 1]
                   /\ hist' = [hist EXCEPT ![obj].refs = @ - 1]
                   /\ ev' = Event(IF DropsToZero(count) THEN AfterZero ELSE Returned,
                                  obj, NullString, 0, NULL)
                   /\ UNCHANGED <<heap, mem, misuse, fault, g_ptrs, node, va, lexer>>

\* lines 95-98: if (obj->destructor) obj->destructor(obj->data);
ReleaseDestructor ==
    /\ ev.op = AtDestructorTest
    /\ LET obj == ev.arg
           d == box[obj].destructor
           data == box[obj].data
           invoked == d # NoDestructor
           payload == IF invoked THEN DestructorFrees(d, data) ELSE NULL
       IN  /\ heap' = Free(heap, payload)
           /\ mem' = ScrubMem(mem, Free(heap, payload))
           /\ fault' = fault \cup FreeFault(heap, payload)
           /\ hist' = [hist EXCEPT ![obj].dtorCalls = IF invoked /\ @ < 2 THEN @ + 1 ELSE @]
           /\ ev' = Event(AfterDestructor, obj, NullString,
                          IF invoked THEN 1 ELSE 0, IF invoked THEN data ELSE NULL)
           /\ UNCHANGED <<box, misuse, g_ptrs, node, va, lexer>>

\* line 99: free(obj);
ReleaseFree ==
    /\ ev.op = AtFreeBox
    /\ LET obj == ev.arg
       IN  /\ heap' = Free(heap, obj)
           /\ box' = ScrubBox(box, Free(heap, obj))
           /\ fault' = fault \cup AccessFault(heap, obj) \cup FreeFault(heap, obj)
           /\ ev' = Event(Returned, obj, NullString, ev.ret, ev.aux)
           /\ UNCHANGED <<mem, hist, misuse, g_ptrs, node, va, lexer>>

\* the other box calls, made between two releases on boxes the caller holds
\* (what a string box holds plays no part in its release: all hold "")
CreateObjectHeld == ~InRelease /\ CreateObject
CreateStringHeld == ~InRelease /\ CreateStringFrom({NullString})
RetainHeld == ~InRelease /\ increment_ref_count /\ ~misuse'

NextRelease ==
    \/ CreateObjectHeld
    \/ CreateStringHeld
    \/ RetainHeld
    \/ ReleaseEnter
    \/ ReleaseDestructor
    \/ ReleaseFree

SpecRelease == Init /\ [][NextRelease]_vars

\* decrement_ref_count is straight-line code: a call that has started runs on
SpecReleaseFair ==
    SpecRelease /\ WF_vars(ReleaseDestructor) /\ WF_vars(ReleaseFree)

(***************************************************************************)
(* Allocation tracker: runtime.c, PtrNode / g_ptrs / registry_add /        *)
(* registry_remove / firescript_malloc / firescript_strdup /               *)
(* firescript_free / firescript_cleanup.                                   *)
(*                                                                         *)
(* The registry is the singly linked list of the source: g_ptrs is its     *)
(* head, node[n] the fields of the PtrNode at address n.  The functions    *)
(* are operators on a record r = [heap, node, head, fault].                *)
(***************************************************************************)
Registry == [heap |-> heap, node |-> node, head |-> g_ptrs, fault |-> fault]

\* the tracked pointers in list order, head first (at most NumNodeAddrs nodes)
RECURSIVE ListFrom(_, _, _)
ListFrom(nd, cur, fuel) ==
    IF cur = NULL \/ fuel = 0 THEN <<>>
    ELSE <<nd[cur].p>> \o ListFrom(nd, nd[cur].next, fuel - 1)

RegistryList == ListFrom(node, g_ptrs, NumNodeAddrs)
Range(q) == {q[i] : i \in 1..Len(q)}
Tracked == Range(RegistryList)

\* faulty variant: registry_add does not test p
NothingToAdd_Never(p) == FALSE

\* if (!p) return;
NothingToAdd(p) == p = NULL

\* faulty variant: the new node does not link to the old list (n->next = NULL)
registry_add_Unlinked(r, p, n) ==
    IF p = NULL \/ n = NULL THEN r
    ELSE [r EXCEPT !.heap = Malloc(r.heap, n),
                   !.node = [r.node EXCEPT ![n] = [p |-> p, next |-> NULL]],
                   !.head = n]

\* registry_add(p); n is what its malloc(sizeof(PtrNode)) returned
registry_add(r, p, n) ==
    IF NothingToAdd(p) THEN r
    ELSE IF n = NULL THEN r      \* out of memory: p is returned untracked
    ELSE [r EXCEPT !.heap = Malloc(r.heap, n),
                   !.node = [r.node EXCEPT ![n] = [p |-> p, next |-> r.head]],
                   !.head = n]

\* the results malloc(sizeof(PtrNode)) may have in registry_add(p) on heap h
NodeResults(h, p) == IF NothingToAdd(p) THEN {NULL} ELSE MallocResults(h, NodeAddrs)

\* faulty variant: the matching node is always unlinked by g_ptrs = cur->next
Unlink_HeadOnly(r, prev, cur) == [r EXCEPT !.head = r.node[cur].next]

\* if (prev) prev->next = cur->next; else g_ptrs = cur->next;
Unlink(r, prev, cur) ==
    IF prev # NULL
    THEN [r EXCEPT !.node = [r.node EXCEPT ![prev].next = r.node[cur].next]]
    ELSE [r EXCEPT !.head = r.node[cur].next]

\* faulty variant: a pointer the list does not hold is reported as removed
NotFound_Removed(r) == [r |-> r, ret |-> 1]

\* return 0; after the loop of registry_remove: no node holds p
NotFound(r) == [r |-> r, ret |-> 0]

\* the loop of registry_remove(p) from node cur on; prev is the node before
RECURSIVE RemoveFrom(_, _, _, _, _)
RemoveFrom(r, p, prev, cur, fuel) ==
    IF cur = NULL \/ fuel = 0 THEN NotFound(r)
    ELSE LET r1 == [r EXCEPT !.fault = @ \cup AccessFault(r.heap, cur)]
         IN  IF r1.node[cur].p = p
             THEN LET r2 == Unlink(r1, prev, cur)
                  IN  [r |-> [r2 EXCEPT !.heap = Free(r2.heap, cur),
                                        !.fault = @ \cup FreeFault(r2.heap, cur)],
                       ret |-> 1]
             ELSE RemoveFrom(r1, p, cur, r1.node[cur].next, fuel - 1)

\* registry_remove(p): the registry afterwards and the value returned
registry_remove(r, p) ==
    IF p = NULL THEN [r |-> r, ret |-> 0]
    ELSE RemoveFrom(r, p, NULL, r.head, NumNodeAddrs)

\* faulty variant: p is freed whatever registry_remove returned
FreeIfRemoved_Always(rr, p) ==
    [rr.r EXCEPT !.heap = Free(rr.r.heap, p),
                 !.fault = @ \cup FreeFault(rr.r.heap, p)]

\* if (registry_remove(p)) free(p);
FreeIfRemoved(rr, p) ==
    IF rr.ret # 0
    THEN [rr.r EXCEPT !.heap = Free(rr.r.heap, p),
                      !.fault = @ \cup FreeFault(rr.r.heap, p)]
    ELSE rr.r

\* faulty variant: the sweep frees the nodes and leaves g_ptrs pointing at them
SweepEnd_KeepHead(r) == r

\* g_ptrs = NULL;
SweepEnd(r) == [r EXCEPT !.head = NULL]

\* the loop of firescript_cleanup from node cur on
RECURSIVE SweepFrom(_, _, _)
SweepFrom(r, cur, fuel) ==
    IF cur = NULL \/ fuel = 0 THEN r
    ELSE LET n == r.node[cur].next
             p == r.node[cur].p
             h1 == Free(r.heap, p)
             h2 == Free(h1, cur)
         IN  SweepFrom([r EXCEPT !.heap = h2,
                                 !.fault = @ \cup AccessFault(r.heap, cur)
                                             \cup FreeFault(r.heap, p)
                                             \cup FreeFault(h1, cur)],
                       n, fuel - 1)

\* the state after a tracker call left registry r and byte contents m
TrackerState(r, m) ==
    /\ heap' = r.heap
    /\ node' = ScrubNode(r.node, r.heap)
    /\ g_ptrs' = r.head
    /\ fault' = r.fault
    /\ mem' = ScrubMem(m, r.heap)
    /\ UNCHANGED <<box, hist, misuse, va, lexer>>

\* firescript_malloc(size): malloc, then registry_add.  The block's bytes are
\* uninitialised (kind "raw"); its size plays no part in the tracker.
firescript_malloc ==
    \E p \in MallocResults(heap, DataAddrs) :
        LET r1 == [Registry EXCEPT !.heap = Malloc(heap, p)]
        IN  \E n \in NodeResults(r1.heap, p) :
                /\ TrackerState(registry_add(r1, p, n),
                                IF p = NULL THEN mem
                                ELSE [mem EXCEPT ![p] = [kind |-> "raw", s |-> <<>>]])
                /\ ev' = Event("malloc", NULL, NullString, p, n)

\* firescript_strdup(s): strdup(s ? s : ""), then registry_add
TrackedStrdupIn(pool, strs) ==
    \E str \in strs, p \in MallocResults(heap, pool) :
        LET r1 == [Registry EXCEPT !.heap = Malloc(heap, p)]
        IN  \E n \in NodeResults(r1.heap, p) :
                /\ TrackerState(registry_add(r1, p, n),
                                IF p = NULL THEN mem
                                ELSE [mem EXCEPT ![p] = [kind |-> "str",
                                                         s |-> StrdupText(str)]])
                /\ ev' = Event("strdup", NULL, str, p, n)

firescript_strdup == TrackedStrdupIn(DataAddrs, CStrings)

\* pointers a caller can pass to firescript_free: NULL, a heap block (tracked,
\* untracked or already released), or an object no malloc returned
FreeArgs == {NULL, StaticAddr} \cup DataAddrs

\* firescript_free(p), p one of args
TrackedFreeOf(args) ==
    \E p \in args :
        LET rr == registry_remove(Registry, p)
        IN  /\ TrackerState(FreeIfRemoved(rr, p), mem)
            /\ ev' = Event("free", p, NullString, rr.ret, NULL)

firescript_free == TrackedFreeOf(FreeArgs)

\* firescript_cleanup()
firescript_cleanup ==
    /\ TrackerState(SweepEnd(SweepFrom(Registry, g_ptrs, NumNodeAddrs)), mem)
    /\ ev' = Event("cleanup", NULL, NullString, Len(RegistryList), NULL)

NextTracker ==
    \/ Running /\ firescript_malloc
    \/ Running /\ firescript_strdup
    \/ Running /\ firescript_free
    \/ Running /\ firescript_cleanup

SpecTracker == Init /\ [][NextTracker]_vars

(***************************************************************************)
(* Dynamic array: varray.c.  data holds one entry per element slot (an     *)
(* element is elem_size bytes, and every memcpy/memmove of the source      *)
(* moves whole elements); slot i of the source is data[i + 1].  A slot     *)
(* that was never written holds Junk.                                      *)
(***************************************************************************)
Elems == {1, 2}
ElemSizes == {4, 8}
Junk == 0

\* the elements the array holds, in index order
Contents(v) == SubSeq(v.data, 1, v.size)

\* faulty variant: the block is allocated afresh and the old bytes are not copied
Realloc_Fresh(data, n) == [i \in 1..n |-> Junk]

\* realloc to n slots: the old slots are kept up to n, new slots are uninitialised
Realloc(data, n) == [i \in 1..n |-> IF i <= Len(data) THEN data[i] ELSE Junk]

\* varray_resize(va, new_capacity); ok: whether realloc succeeds (NULL if not)
varray_resize(v, new_capacity, ok) ==
    IF ok
    THEN [v EXCEPT !.capacity = new_capacity,
                   !.size = IF v.size > new_capacity THEN new_capacity ELSE v.size,
                   !.data = Realloc(v.data, new_capacity)]
    ELSE NoArray

\* faulty variant: the array grows only once size exceeds capacity
NeedsGrowth_Late(v) == v.size > v.capacity

\* va->size >= va->capacity
NeedsGrowth(v) == v.size >= v.capacity

\* faulty variant: the array grows by one element
GrownCapacity_Linear(v) == v.capacity + 1

\* (va->capacity > 0) ? va->capacity * 2 : 1
GrownCapacity(v) == IF v.capacity > 0 THEN v.capacity * 2 ELSE 1

\* faulty variant: the element is written one slot too far
StoreAt_Next(data, i, e) ==
    IF i + 2 \in 1..Len(data) THEN [data EXCEPT ![i + 2] = e] ELSE data

\* memcpy(va->data + i * elem_size, element, elem_size); a write past the
\* block is not modelled as changing a slot
StoreAt(data, i, e) == IF i + 1 \in 1..Len(data) THEN [data EXCEPT ![i + 1] = e] ELSE data

\* faulty variant: the result of varray_resize is used without the test
GrowthFailed_Ignored(temp) == FALSE

\* !temp
GrowthFailed(temp) == ~temp.exists

\* varray_append(va, element)
varray_append(v, e, ok) ==
    LET temp == IF NeedsGrowth(v) THEN varray_resize(v, GrownCapacity(v), ok) ELSE v
    IN  IF GrowthFailed(temp) THEN v      \* allocation failed; return original
        ELSE [temp EXCEPT !.data = StoreAt(temp.data, temp.size, e),
                          !.size = temp.size + 1]

\* faulty variant: the elements are copied upwards one by one from index (a forward
\* memcpy of overlapping ranges), so each takes the value of the one before
ShiftRight_Forward(data, index, size) ==
    [i \in 1..Len(data) |->
        IF i >= index + 2 /\ i <= size + 1 THEN data[index + 1] ELSE data[i]]

\* memmove(data + (index + 1) * es, data + index * es, (size - index) * es)
ShiftRight(data, index, size) ==
    [i \in 1..Len(data) |->
        IF i >= index + 2 /\ i <= size + 1 THEN data[i - 1] ELSE data[i]]

\* varray_insert(va, index, element)
varray_insert(v, index, e, ok) ==
    IF index > v.size THEN v        \* invalid index; do nothing
    ELSE LET temp == IF NeedsGrowth(v) THEN varray_resize(v, GrownCapacity(v), ok)
                     ELSE v
         IN  IF GrowthFailed(temp) THEN v
             ELSE [temp EXCEPT
                     !.data = StoreAt(ShiftRight(temp.data, index, temp.size), index, e),
                     !.size = temp.size + 1]

\* faulty variant: the count is one element short, the last one is not moved
ShiftLeft_Short(data, index, size) ==
    [i \in 1..Len(data) |->
        IF i >= index + 1 /\ i <= size - 2 THEN data[i + 1] ELSE data[i]]

\* memmove(data + index * es, data + (index + 1) * es, (size - index - 1) * es)
ShiftLeft(data, index, size) ==
    [i \in 1..Len(data) |->
        IF i >= index + 1 /\ i <= size - 1 THEN data[i + 1] ELSE data[i]]

\* faulty variant: the array shrinks as soon as it is half empty
NeedsShrink_AtHalf(v) == v.capacity > 1 /\ v.size <= v.capacity \div 2

\* va->capacity > 1 && va->size < va->capacity / 4   (size already decremented)
NeedsShrink(v) == v.capacity > 1 /\ v.size < v.capacity \div 4

\* faulty variant: the index equal to size is let through
InvalidRemoveIndex_Past(v, index) == index > v.size

\* index >= va->size
InvalidRemoveIndex(v, index) == index >= v.size

\* varray_remove(va, index)
varray_remove(v, index, ok) ==
    IF InvalidRemoveIndex(v, index) THEN v       \* invalid index; do nothing
    ELSE LET v1 == [v EXCEPT !.data = ShiftLeft(v.data, index, v.size),
                             !.size = v.size - 1]
             temp == IF NeedsShrink(v1) THEN varray_resize(v1, v1.capacity \div 2, ok)
                     ELSE v1
         IN  IF temp.exists THEN temp ELSE v1

\* varray_clear(va)
varray_clear(v) == [v EXCEPT !.size = 0]

\* what malloc/realloc may do in a call: fail or succeed where the call
\* allocates, nothing to choose where it does not
Outcomes(allocates) == IF allocates THEN BOOLEAN ELSE {TRUE}

ArrayEvent(op, index, e, ok) ==
    Event(op, index, NullString, e, IF ok THEN 1 ELSE 0)

ArrayStep(v, event) ==
    /\ va' = v
    /\ ev' = event
    /\ UNCHANGED <<heap, mem, box, hist, misuse, fault, g_ptrs, node, lexer>>

\* varray_create(capacity, elem_size); ok: whether malloc succeeds
VarrayCreate ==
    /\ ~va.exists
    /\ \E capacity \in 0..MaxInitCapacity, es \in ElemSizes, ok \in BOOLEAN :
          ArrayStep(IF ok THEN [exists |-> TRUE, size |-> 0, capacity |-> capacity,
                                elem_size |-> es,
                                data |-> [i \in 1..capacity |-> Junk]]
                    ELSE NoArray,
                    ArrayEvent("create", capacity, 0, ok))

\* the calls are made while the capacity they grow to stays within MaxCapacity
MayGrow(v) == NeedsGrowth(v) => GrownCapacity(v) <= MaxCapacity

VarrayAppend ==
    /\ va.exists /\ MayGrow(va)
    /\ \E e \in Elems, ok \in Outcomes(NeedsGrowth(va)) :
          ArrayStep(varray_append(va, e, ok), ArrayEvent("append", va.size, e, ok))

\* indices a caller passes: every valid one and the first invalid ones
VarrayInsert ==
    /\ va.exists /\ MayGrow(va)
    /\ \E index \in 0..(va.size + 1), e \in Elems :
       \E ok \in Outcomes(index <= va.size /\ NeedsGrowth(va)) :
          ArrayStep(varray_insert(va, index, e, ok), ArrayEvent("insert", index, e, ok))

\* capacities passed to a direct varray_resize: none, and one that grows a
\* smaller block and cuts a longer array short
ResizeCapacities == {0, 3}

\* varray_resize(va, new_capacity) called directly; when realloc fails the
\* call returns NULL and the block is as it was
VarrayResize ==
    /\ va.exists
    /\ \E new_capacity \in ResizeCapacities, ok \in BOOLEAN :
          ArrayStep(IF ok THEN varray_resize(va, new_capacity, ok) ELSE va,
                    ArrayEvent("resize", new_capacity, 0, ok))

VarrayRemove ==
    /\ va.exists
    /\ \E index \in 0..(va.size + 1) :
       \E ok \in Outcomes(index < va.size /\ NeedsShrink([va EXCEPT !.size = @ - 1])) :
          ArrayStep(varray_remove(va, index, ok), ArrayEvent("remove", index, va.capacity, ok))

VarrayClear ==
    /\ va.exists
    /\ ArrayStep(varray_clear(va), ArrayEvent("clear", 0, 0, TRUE))

\* varray_free(va)
VarrayFree ==
    /\ va.exists
    /\ ArrayStep(NoArray, ArrayEvent("destroy", 0, 0, TRUE))

NextArray ==
    \/ VarrayCreate
    \/ VarrayAppend
    \/ VarrayInsert
    \/ VarrayRemove
    \/ VarrayResize
    \/ VarrayClear
    \/ VarrayFree

SpecArray == Init /\ [][NextArray]_vars

(***************************************************************************)
(* String operations: runtime.c, firescript_create_string /                *)
(* firescript_input_ref / firescript_strcat_ref / firescript_strcmp_ref,   *)
(* run on boxes that one of the first three returned and that              *)
(* their callers still hold.  A C string is the sequence of its bytes      *)
(* before the terminating NUL.                                             *)
(***************************************************************************)
\* handles a caller passes to the string operations: NULL or a live string box
StringHandles == {NULL} \cup {a \in StrBoxAddrs : heap[a] = "live"}

\* (const char *)obj->data
StringOf(obj) == mem[box[obj].data].s

\* s_obj ? (const char *)s_obj->data : ""
OperandText(obj) == IF obj = NULL THEN <<>> ELSE StringOf(obj)

\* strlen(s)
strlen(s) == Len(s)

\* strcmp(s, t) from byte i on: 0 when the strings are equal, non-zero (shown
\* as 1, the sign is not modelled) at the first byte that differs or where
\* only one of them ends
RECURSIVE strcmp_from(_, _, _)
strcmp_from(s, t, i) ==
    IF i > Len(s) /\ i > Len(t) THEN 0
    ELSE IF i > Len(s) \/ i > Len(t) THEN 1
    ELSE IF s[i] # t[i] THEN 1
    ELSE strcmp_from(s, t, i + 1)

strcmp(s, t) == strcmp_from(s, t, 1)

\* faulty variant: the operands are copied in the other order
Concat_Swapped(s1, s2) ==
    [i \in 1..(strlen(s1) + strlen(s2)) |->
        IF i <= strlen(s2) THEN s2[i] ELSE s1[i - strlen(s2)]]

\* memcpy(result, s1, len1); memcpy(result + len1, s2, len2);
\* result[len1 + len2] = 0
Concat(s1, s2) ==
    [i \in 1..(strlen(s1) + strlen(s2)) |->
        IF i <= strlen(s1) THEN s1[i] ELSE s2[i - strlen(s1)]]

\* faulty variant: the payload is allocated by the tracking wrapper
\* (firescript_strdup / firescript_malloc), which registers it
RegisterPayload_Tracked(r, p) ==
    LET avail == {n \in NodeAddrs : r.heap[n] # "live"}
    IN  IF avail = {} THEN r
        ELSE registry_add(r, p, CHOOSE n \in avail : TRUE)

\* the registry after the payload p was allocated: inside runtime.c strdup and
\* malloc are the libc functions (#undef, lines 20-22), nothing is registered
RegisterPayload(r, p) == r

\* str ? strdup(str) : strdup("") (or the malloc of firescript_strcat_ref)
\* allocating from dpool, then create_ref_counted_object allocating from
\* bpool; text is what the payload holds
NewStringBoxIn(dpool, bpool, op, a, b, str, text) ==
    \E payload \in MallocResults(heap, dpool) :
        IF payload = NULL
        THEN /\ ev' = Event(op, a, str, NULL, b)
             /\ UNCHANGED <<heap, mem, box, hist, misuse, fault, g_ptrs, node, va, lexer>>
        ELSE LET r == RegisterPayload([Registry EXCEPT !.heap = Malloc(heap, payload)],
                                      payload)
             IN  \E obj \in bpool \cup {NULL} :
                 /\ CreateBoxIn(bpool, r.heap, obj, payload, StringDestructor)
                 /\ mem' = [mem EXCEPT ![payload] = [kind |-> "str", s |-> text]]
                 /\ g_ptrs' = r.head
                 /\ node' = r.node
                 /\ ev' = Event(op, a, str, obj, b)
                 /\ UNCHANGED <<misuse, fault, va, lexer>>

\* the same, allocating in the string part of the heap
NewStringBox(op, a, b, str, text) ==
    NewStringBoxIn(StrDataAddrs, StrBoxAddrs, op, a, b, str, text)

\* firescript_create_string(str)
CreateString ==
    \E str \in CStrings : NewStringBox("create_string", NULL, NULL, str, StrdupText(str))

\* firescript_strcat_ref(s1_obj, s2_obj) on two of handles
StrcatRefIn(dpool, bpool, handles) ==
    \E s1_obj, s2_obj \in handles :
        LET s1 == OperandText(s1_obj)
            s2 == OperandText(s2_obj)
        IN  /\ strlen(s1) + strlen(s2) <= MaxTextLen
            /\ NewStringBoxIn(dpool, bpool, "strcat", s1_obj, s2_obj, NullString,
                              Concat(s1, s2))

firescript_strcat_ref == StrcatRefIn(StrDataAddrs, StrBoxAddrs, StringHandles)

\* firescript_input_ref(prompt): buffer is the token scanf("%255s") read, or
\* "" when it read none; strdup(buffer), then create_ref_counted_object
firescript_input_ref ==
    \E buffer \in Texts :
        NewStringBox("input", NULL, NULL, [null |-> FALSE, s |-> buffer], buffer)

\* faulty variant: an absent operand is compared as the empty string
StrcmpRef_NullAsEmpty(s1_obj, s2_obj) ==
    strcmp(OperandText(s1_obj), OperandText(s2_obj)) = 0

\* what firescript_strcmp_ref(s1_obj, s2_obj) returns
StrcmpRef(s1_obj, s2_obj) ==
    IF s1_obj = NULL \/ s2_obj = NULL
    THEN s1_obj = s2_obj
    ELSE strcmp(StringOf(s1_obj), StringOf(s2_obj)) = 0

\* firescript_strcmp_ref(s1_obj, s2_obj); ret is 1 for true, 0 for false
firescript_strcmp_ref ==
    \E s1_obj, s2_obj \in StringHandles :
        /\ ev' = Event("strcmp", s1_obj, NullString,
                       IF StrcmpRef(s1_obj, s2_obj) THEN 1 ELSE 0, s2_obj)
        /\ UNCHANGED <<heap, mem, box, hist, misuse, fault, g_ptrs, node, va, lexer>>

\* The boxes of these runs are held by their callers throughout: none is
\* released (release is the subject of the runs of SpecBox).
NextString ==
    \/ CreateString
    \/ firescript_strcat_ref
    \/ firescript_strcmp_ref
    \/ firescript_input_ref

SpecString == Init /\ [][NextString]_vars

(***************************************************************************)
(* Boxes and tracker together: runtime.c, the string constructors and      *)
(* decrement_ref_count interleaved with firescript_strdup /                *)
(* firescript_free / firescript_cleanup, all                               *)
(* allocating from one heap (SharedAddrs).  Callers release only boxes     *)
(* they hold, and pass firescript_free any pointer they have seen: a       *)
(* tracked block, a box, a payload, a literal.  The PtrNodes of the list   *)
(* keep their own addresses.                                               *)
(***************************************************************************)
\* the string boxes that are allocated
SharedHandles == {a \in SharedAddrs : heap[a] = "live" /\ box[a] # NoBox}

\* the payloads of the allocated string boxes
SharedPayloads == {box[a].data : a \in SharedHandles}

\* texts of the combined runs (what the blocks hold plays no part in who frees them)
SharedStrings == {NullString}

SharedCreateString ==
    \E str \in SharedStrings :
        NewStringBoxIn(SharedAddrs, SharedAddrs, "create_string", NULL, NULL, str,
                       StrdupText(str))

SharedInputRef ==
    NewStringBoxIn(SharedAddrs, SharedAddrs, "input", NULL, NULL,
                   [null |-> FALSE, s |-> <<>>], <<>>)

SharedStrcatRef == StrcatRefIn(SharedAddrs, SharedAddrs, {NULL} \cup SharedHandles)

SharedRelease == DecrementIn(SharedHandles) /\ ~misuse'

SharedStrdup == TrackedStrdupIn(SharedAddrs, SharedStrings)

SharedFree == TrackedFreeOf({NULL, StaticAddr} \cup SharedAddrs)

NextShared ==
    \/ Running /\ SharedCreateString
    \/ Running /\ SharedInputRef
    \/ Running /\ SharedStrcatRef
    \/ Running /\ SharedRelease
    \/ Running /\ SharedStrdup
    \/ Running /\ SharedFree
    \/ Running /\ firescript_cleanup

SpecShared == Init /\ [][NextShared]_vars

(***************************************************************************)
(* Lexer: src/lexer.cpp, Lexer::Lexer and Lexer::lex.  A text is the       *)
(* sequence of its characters; positions are those of std::string,         *)
(* counted from 0.  One step of the model is one iteration of the while    *)
(* loop of lex().                                                          *)
(***************************************************************************)
\* the characters the scanner tells apart: the two of the comment marks, the
\* line end, and one that stands for every other character
Chars == {"/", "*", "\n", "x"}

Inputs == UNION {[1..n -> Chars] : n \in 0..MaxInputLen}

\* std::string::npos
npos == -1

\* s.substr(pos, n), pos <= s.length(): at most n characters from pos on
substr(s, pos, n) ==
    SubSeq(s, pos + 1, IF pos + n < Len(s) THEN pos + n ELSE Len(s))

\* s.find(t, pos): the first position >= pos where t occurs in s, or npos
find(s, t, pos) ==
    LET hits == {i \in pos..(Len(s) - Len(t)) : substr(s, i, Len(t)) = t}
    IN  IF hits = {} THEN npos
        ELSE CHOOSE i \in hits : \A j \in hits : i <= j

LineCommentMark == <<"/", "/">>
BlockCommentOpen == <<"/", "*">>
BlockCommentClose == <<"*", "/">>
LineEnd == <<"\n">>

\* Token{"COMMENT", value}
CommentToken(value) == [type |-> "COMMENT", value |-> value]

\* Lexer::Lexer(input, logger)
LexerCreate ==
    /\ lexer.at = "none"
    /\ \E input \in Inputs :
          lexer' = [at |-> "lex", input |-> input, index |-> 0, tokens |-> <<>>,
                    errors |-> 0]
    /\ UNCHANGED <<heap, mem, box, hist, misuse, fault, g_ptrs, node, va, ev>>

\* this->index++ at the end of the loop body (line 127), index being what the
\* branch taken left
EndOfIteration(index) == index + 1

\* the Lexer after one iteration of the loop of lex() (lines 97-127)
LexIteration(lx) ==
    LET s == lx.input
        i == lx.index
    IN  IF substr(s, i, 2) = LineCommentMark
        THEN LET found == find(s, LineEnd, i)
                 endOfComment == IF found = npos THEN Len(s) ELSE found
             IN  [lx EXCEPT !.tokens = Append(@, CommentToken(substr(s, i, endOfComment - i))),
                            !.index = EndOfIteration(endOfComment)]
        ELSE IF substr(s, i, 2) = BlockCommentOpen
        THEN LET endOfComment == find(s, BlockCommentClose, i)
             IN  IF endOfComment = npos
                 THEN [lx EXCEPT !.errors = @ + 1, !.at = "return"]     \* break
                 ELSE [lx EXCEPT
                         !.tokens = Append(@, CommentToken(substr(s, i, endOfComment - i + 2))),
                         !.index = EndOfIteration(endOfComment + 2)]
        ELSE [lx EXCEPT !.index = EndOfIteration(i)]

\* while (this->index < this->input.length()) { ... }
LexStep ==
    /\ lexer.at = "lex"
    /\ lexer.index < Len(lexer.input)
    /\ lexer' = LexIteration(lexer)
    /\ UNCHANGED <<heap, mem, box, hist, misuse, fault, g_ptrs, node, va, ev>>

\* the loop is left (condition false, or break): return this->tokens
LexReturn ==
    /\ \/ lexer.at = "lex" /\ ~(lexer.index < Len(lexer.input))
       \/ lexer.at = "return"
    /\ lexer' = [lexer EXCEPT !.at = "returned"]
    /\ UNCHANGED <<heap, mem, box, hist, misuse, fault, g_ptrs, node, va, ev>>

NextLexer ==
    \/ LexerCreate
    \/ LexStep
    \/ LexReturn

SpecLexer == Init /\ [][NextLexer]_vars

(***************************************************************************)
(* Claims about the shared value box.                                      *)
(***************************************************************************)

\* C1 (as stated): for any sequence of retains and releases on a box, its
\* destructor has been invoked exactly once as soon as the releases made on it
\* equal 1 + the retains (the box is Gone), and not at all before; it is never
\* invoked a second time.  (Stated for the boxes that have a destructor.)
C1_DestructorExactlyOnce ==
    \A a \in BoxAddrs :
        (Created(a) /\ hist[a].destructor # NoDestructor) =>
            hist[a].dtorCalls = (IF Gone(a) THEN 1 ELSE 0)

\* C1 (amended): as long as no call was made on a handle whose references were
\* all released, a box created with a destructor has had it invoked exactly once
\* as soon as the releases equal 1 + the retains and not before, and a box
\* created without a destructor has had nothing invoked.
C1_DestructorOnceWhileOwned ==
    ~misuse =>
        \A a \in BoxAddrs :
            Created(a) =>
                hist[a].dtorCalls =
                    (IF Gone(a) /\ hist[a].destructor # NoDestructor THEN 1 ELSE 0)

\* a box with a destructor was retained and another was released to destruction
C1_Witness ==
    /\ ~misuse
    /\ \E a, b \in BoxAddrs :
          /\ Gone(a) /\ hist[a].destructor = StringDestructor /\ hist[a].dtorCalls = 1
          /\ heap[b] = "live" /\ box[b].ref_count = 2

\* C2 (as stated): under every sequence of create, retain and release calls,
\* more releases than 1 + retains included, no block is freed twice and no
\* freed box is read or written.
C2_NoMemoryError == fault = {}

\* C2 (amended): as long as no call was made on a handle whose references were
\* all released, no block is freed twice and no freed box is read or written.
C2_NoMemoryErrorWhileOwned == ~misuse => fault = {}

\* a string box was destroyed, its payload and the box freed, without misuse
C2_Witness ==
    /\ ~misuse
    /\ \E a \in BoxAddrs, p \in DataAddrs :
          /\ Gone(a) /\ heap[a] = "freed" /\ heap[p] = "freed"
          /\ hist[a].dtorCalls = 1

\* the stored count of a live box is positive and is 1 + retains - releases
C3_LiveCount ==
    \A a \in BoxAddrs :
        heap[a] = "live" =>
            /\ box[a].ref_count >= 1
            /\ box[a].ref_count = hist[a].refs

\* a box starts at count 1 and dies only in the release that takes 1 to 0
C3_Lifecycle ==
    \A a \in BoxAddrs :
        /\ (heap[a] # "live" /\ heap'[a] = "live") => box'[a].ref_count = 1
        /\ (heap[a] = "live" /\ heap'[a] # "live") =>
               /\ box[a].ref_count = 1
               /\ hist[a].refs = 1 /\ hist'[a].refs = 0

\* C3: every live box has ref_count >= 1 and ref_count = 1 + retains - releases
\* (hist.refs); a box comes to life with count 1; and a live box stops being
\* live only in a release that found the count at 1 and brought it to 0.
C3_RefCountInvariant == [](C3_LiveCount) /\ [][C3_Lifecycle]_vars

\* a box holds three references while another has been destroyed
C3_Witness ==
    \E a, b \in BoxAddrs :
        /\ heap[a] = "live" /\ box[a].ref_count = 3
        /\ heap[b] = "freed" /\ hist[b].refs = 0

\* what one step of a release may do to the boxes, in the order of the code
C21_ReleaseStep ==
    /\ \A a \in BoxAddrs :
          \* the destructor is invoked on the payload while the box is allocated
          /\ hist'[a].dtorCalls > hist[a].dtorCalls =>
                /\ heap[a] = "live" /\ heap'[a] = "live"
                /\ box[a].ref_count = 0 /\ hist[a].dtorCalls = 0
                /\ ev'.arg = a /\ ev'.ret = 1 /\ ev'.aux = box[a].data
                /\ box[a].data # NULL =>
                      heap[box[a].data] = "live" /\ heap'[box[a].data] = "freed"
          \* the box is freed after that, by the call that brought its count to 0
          /\ (heap[a] = "live" /\ heap'[a] = "freed") =>
                /\ InRelease /\ ev.arg = a /\ box[a].ref_count = 0
                /\ box[a].destructor # NoDestructor =>
                      /\ hist[a].dtorCalls = 1 /\ ev.ret = 1
                      /\ box[a].data # NULL => heap[box[a].data] = "freed"
    \* a call in progress is not interleaved with another, and returns only
    \* once the box is freed
    /\ InRelease =>
          /\ ev'.arg = ev.arg /\ ev'.op \in {AtFreeBox, Returned}
          /\ ev'.op = Returned => heap'[ev.arg] = "freed"
    \* a release that leaves the count above 0 returns at once: it frees
    \* nothing and invokes nothing; one that brings it to 0 does not
    /\ (~InRelease /\ ev'.op \in {AtDestructorTest, AtFreeBox, Returned}
                   /\ ev'.arg # NULL) =>
          LET a == ev'.arg
          IN  /\ box'[a].ref_count = box[a].ref_count - 1
              /\ heap' = heap /\ mem' = mem
              /\ hist'[a].dtorCalls = hist[a].dtorCalls
              /\ ev'.op = Returned <=> box'[a].ref_count > 0
              /\ ev'.op = AtDestructorTest <=> box'[a].ref_count = 0

\* C21: in the decrement_ref_count call that brings a box's count to 0, the
\* destructor (if one was supplied) is invoked on the payload strictly before
\* the box is freed, and the box is freed within that same call whether or
\* not a destructor was supplied (the call, once it found the count at 0,
\* always reaches its return, with the box freed); a release that leaves the
\* count above 0 frees nothing and invokes nothing.
C21_DestroyOrder == [][C21_ReleaseStep]_vars /\ (InRelease ~> ev.op = Returned)

\* a release destroyed a string box (payload freed by the destructor, then the
\* box) while a box without destructor, released to 0 earlier, is freed too
C21_Witness ==
    /\ ev.op = Returned /\ ev.arg # NULL /\ ev.ret = 1 /\ ev.aux # NULL
    /\ heap[ev.arg] = "freed" /\ heap[ev.aux] = "freed"
    /\ hist[ev.arg].dtorCalls = 1
    /\ \E b \in BoxAddrs \ {ev.arg} :
          /\ heap[b] = "freed" /\ hist[b].destructor = NoDestructor
          /\ hist[b].dtorCalls = 0 /\ hist[b].refs = 0

(***************************************************************************)
(* Claims about the allocation tracker.                                    *)
(***************************************************************************)
\* the last call was an allocation that returned a pointer
Allocating == ev.op \in {"malloc", "strdup"} /\ ev.ret # NULL

\* C4 (as stated): every non-null pointer firescript_malloc or
\* firescript_strdup returns is in the live set when the call returns.
C4_ReturnedIsTracked == Allocating => ev.ret \in Tracked

\* the returned block is live, holds the copy, and is tracked iff a node was got
C4_AtReturn ==
    Allocating =>
        /\ ev.ret \in Tracked <=> ev.aux # NULL
        /\ heap[ev.ret] = "live"
        /\ ev.op = "strdup" => mem[ev.ret] = [kind |-> "str", s |-> StrdupText(ev.txt)]

\* an address leaves the live set only in a free of it or in the cleanup
C4_LeavesOnlyByRelease ==
    \A p \in DataAddrs :
        (p \in Tracked /\ p \notin Tracked') =>
            \/ ev'.op = "free" /\ ev'.arg = p
            \/ ev'.op = "cleanup"

\* C4 (amended): a non-null pointer returned by firescript_malloc or
\* firescript_strdup is in the live set when the call returns exactly when
\* registry_add could allocate its list node (otherwise it is returned
\* untracked); a member leaves the set only by a firescript_free of it or by
\* firescript_cleanup; firescript_strdup of a null text returns a copy of "".
C4_TrackedIfNodeAllocated == [](C4_AtReturn) /\ [][C4_LeavesOnlyByRelease]_vars

\* strdup(NULL) returned a tracked copy of "" next to an older tracked pointer
C4_Witness ==
    /\ ev.op = "strdup" /\ ev.txt.null /\ ev.ret # NULL
    /\ ev.ret \in Tracked /\ mem[ev.ret].s = <<>>
    /\ Len(RegistryList) = 2

\* what one firescript_free does to the heap and to the registry
C5_FreeStep ==
    ev'.op = "free" =>
        LET p == ev'.arg
        IN  IF p \in Tracked
            THEN /\ heap[p] = "live" /\ heap'[p] = "freed"
                 /\ \A a \in DataAddrs \ {p} : heap'[a] = heap[a]
                 /\ Tracked' = Tracked \ {p}
            ELSE /\ heap' = heap /\ g_ptrs' = g_ptrs /\ node' = node /\ mem' = mem
                 /\ ev'.ret = 0

\* C5: firescript_free(p) frees p only if p is in the live set, and then
\* removes it; for any other p (never tracked, null, already released) it
\* frees nothing and leaves the registry unchanged, so a second free of the
\* same pointer is a no-op; no block is freed twice.
C5_FreeOnlyTracked == [](BadFree \notin fault) /\ [][C5_FreeStep]_vars

\* a firescript_free of an already released pointer was made and did nothing
C5_Witness ==
    /\ ev.op = "free" /\ ev.ret = 0
    /\ ev.arg \in DataAddrs /\ heap[ev.arg] = "freed"

\* what one firescript_cleanup does to the heap and to the registry
C6_CleanupStep ==
    ev'.op = "cleanup" =>
        /\ \A a \in Tracked : a \in DataAddrs /\ heap[a] = "live"
        /\ \A a \in DataAddrs : heap'[a] = (IF a \in Tracked THEN "freed" ELSE heap[a])
        /\ \A n \in NodeAddrs : heap'[n] # "live"
        /\ g_ptrs' = NULL /\ Tracked' = {}
        /\ ev'.ret = Cardinality(Tracked)

\* C6: after any sequence of firescript_malloc / strdup / free calls,
\* firescript_cleanup frees exactly the blocks still in the live set, each
\* once (they are live when it starts), frees none that firescript_free
\* released, and leaves the live set empty; no block is freed twice and no
\* freed block is accessed.
C6_CleanupFreesLiveSet == [](fault = {}) /\ [][C6_CleanupStep]_vars

\* cleanup swept one tracked block after the other block had been released
C6_Witness ==
    /\ ev.op = "cleanup" /\ ev.ret = 1
    /\ \A a \in DataAddrs : heap[a] = "freed"

\* q holds no value twice
NoDuplicates(q) == \A i, j \in 1..Len(q) : i # j => q[i] # q[j]
\* q without its i-th entry
RemoveAt(q, i) == SubSeq(q, 1, i - 1) \o SubSeq(q, i + 1, Len(q))

\* one firescript_free leaves the list as it was or takes out one entry of p
C7_FreeStep ==
    ev'.op = "free" =>
        \/ RegistryList' = RegistryList
        \/ \E i \in 1..Len(RegistryList) :
              /\ RegistryList[i] = ev'.arg
              /\ RegistryList' = RemoveAt(RegistryList, i)

\* C7: no address occurs twice in the registry list, and a firescript_free
\* removes at most one entry and leaves the other entries as they were.
C7_NoDuplicateEntries == [](NoDuplicates(RegistryList)) /\ [][C7_FreeStep]_vars

\* a firescript_free removed one entry of a list that held two
C7_Witness ==
    /\ ev.op = "free" /\ ev.ret = 1
    /\ Len(RegistryList) = 1 /\ ev.arg \notin Tracked

\* C16: when the underlying malloc or strdup fails, firescript_malloc and
\* firescript_strdup return NULL and the live set is exactly what it was:
\* nothing is registered, nothing is removed, no block changes.
C16_FailedAllocationLeavesSet ==
    [][(ev'.op \in {"malloc", "strdup"} /\ ev'.ret = NULL) =>
          /\ RegistryList' = RegistryList
          /\ g_ptrs' = g_ptrs /\ node' = node
          /\ heap' = heap /\ mem' = mem /\ fault' = {}]_vars

\* a firescript_strdup failed while one pointer was tracked
C16_Witness ==
    /\ ev.op = "strdup" /\ ev.ret = NULL /\ ~ev.txt.null
    /\ Len(RegistryList) = 1

\* the registry a second firescript_cleanup, and a firescript_free of any
\* pointer tracked before the first, would leave after the cleanup just made
C22_AfterCleanup ==
    ev'.op = "cleanup" =>
        LET r1 == Registry'
            again == SweepEnd(SweepFrom(r1, r1.head, NumNodeAddrs))
        IN  /\ Tracked' = {}
            /\ again = r1
            /\ \A p \in Tracked :
                  /\ heap'[p] = "freed"
                  /\ registry_remove(r1, p).ret = 0
                  /\ FreeIfRemoved(registry_remove(r1, p), p) = r1

\* the call made right after a firescript_cleanup, when it is a second
\* cleanup or a firescript_free, frees nothing and leaves the live set empty
C22_NextCall ==
    (ev.op = "cleanup" /\ ev'.op \in {"cleanup", "free"}) =>
        /\ heap' = heap /\ node' = node /\ mem' = mem
        /\ g_ptrs' = NULL /\ Tracked' = {}
        /\ ev'.ret = 0

\* C22: firescript_cleanup is idempotent: a second call made right after a
\* first frees nothing and leaves the live set empty, and a firescript_free
\* issued after a cleanup for a pointer that was tracked before the cleanup
\* is a no-op (the block is not freed a second time); no block is ever freed
\* twice.
C22_CleanupIdempotent ==
    [](BadFree \notin fault) /\ [][C22_AfterCleanup /\ C22_NextCall]_vars

\* a firescript_cleanup found the list empty after every block and every
\* node had been freed
C22_Witness ==
    /\ ev.op = "cleanup" /\ ev.ret = 0 /\ g_ptrs = NULL
    /\ \A a \in DataAddrs \cup NodeAddrs : heap[a] = "freed"

(***************************************************************************)
(* Claims about the string operations.                                     *)
(***************************************************************************)

\* C17: firescript_strcat_ref(a, b), when its allocations succeed, returns a
\* new box, distinct from a and b, with ref_count 1, whose content is the
\* content of a followed by the content of b, an absent operand counting as
\* the empty string; the boxes a and b and their payloads are unchanged.
C17_ConcatStep ==
    [][(ev'.op = "strcat" /\ ev'.ret # NULL) =>
          LET a == ev'.arg
              b == ev'.aux
              r == ev'.ret
          IN  /\ r \notin {a, b}
              /\ heap[r] # "live" /\ heap'[r] = "live"
              /\ box'[r].ref_count = 1
              /\ box'[r].destructor = StringDestructor
              /\ mem'[box'[r].data].s =
                    (IF a = NULL THEN <<>> ELSE mem[box[a].data].s)
                       \o (IF b = NULL THEN <<>> ELSE mem[box[b].data].s)
              /\ \A o \in {a, b} \ {NULL} :
                    /\ heap'[o] = "live"
                    /\ box'[o] = box[o]
                    /\ heap'[box[o].data] = "live"
                    /\ mem'[box[o].data] = mem[box[o].data]]_vars

\* two different boxes holding "a" and "b" were concatenated into a third
C17_Witness ==
    /\ ev.op = "strcat" /\ ev.ret # NULL
    /\ ev.arg # NULL /\ ev.aux # NULL /\ ev.arg # ev.aux
    /\ StringOf(ev.arg) = <<"a">> /\ StringOf(ev.aux) = <<"b">>
    /\ StringOf(ev.ret) = <<"a", "b">>

\* C18: firescript_strcmp_ref(a, b) returns true iff a and b are both absent,
\* or both present with byte-for-byte identical contents; an absent box never
\* equals a present one, not even one holding the empty string.
C18_EqualsResult ==
    ev.op = "strcmp" =>
        LET a == ev.arg
            b == ev.aux
        IN  /\ ev.ret \in {0, 1}
            /\ ev.ret = 1 <=>
                  \/ a = NULL /\ b = NULL
                  \/ /\ a # NULL /\ b # NULL
                     /\ mem[box[a].data].s = mem[box[b].data].s

\* a box holding the empty string was compared with an absent box: false
C18_Witness ==
    /\ ev.op = "strcmp" /\ ev.ret = 0
    /\ ev.arg # NULL /\ ev.aux = NULL
    /\ StringOf(ev.arg) = <<>>

\* C23 (as stated): whenever firescript_create_string, firescript_strcat_ref
\* or firescript_input_ref returns NULL because an allocation failed, no
\* memory allocated during that call remains allocated: every block that is
\* live when the call returns was live when it was made (the payload copy, if
\* it was allocated, has been freed again).
C23_NoLeakOnFailure ==
    [][(ev'.op \in {"create_string", "strcat", "input"} /\ ev'.ret = NULL) =>
          \A a \in Addrs : heap'[a] = "live" => heap[a] = "live"]_vars

(***************************************************************************)
(* Claims about boxes and tracker together.                                *)
(***************************************************************************)
\* the blocks of the allocated string boxes: the boxes and their payloads
BoxBlocks == SharedHandles \cup SharedPayloads

\* no block of a box is in the live set, and what the live set holds is
\* allocated
C24_Disjoint ==
    /\ BoxBlocks \cap Tracked = {}
    /\ \A p \in Tracked : heap[p] = "live"
    /\ \A b \in SharedHandles : heap[box[b].data] = "live"

\* a firescript_free (of any pointer, a box or a payload too) and the cleanup
\* leave every box and every payload allocated and as they were
C24_TrackerStep ==
    ev'.op \in {"free", "cleanup"} =>
        \A b \in SharedHandles :
            /\ heap'[b] = "live" /\ box'[b] = box[b]
            /\ heap'[box[b].data] = "live"
            /\ mem'[box[b].data] = mem[box[b].data]

\* a box release frees blocks of boxes only and leaves the tracker's list and
\* its blocks as they were
C24_BoxStep ==
    ev'.op = "box" =>
        /\ g_ptrs' = g_ptrs /\ node' = node
        /\ \A p \in Tracked : heap'[p] = "live" /\ mem'[p] = mem[p]
        /\ \A a \in SharedAddrs :
              (heap[a] = "live" /\ heap'[a] = "freed") => a \in BoxBlocks

\* C24: the boxes created by firescript_create_string, firescript_strcat_ref
\* and firescript_input_ref and their payloads are never members of the
\* tracker's live set; firescript_cleanup (and firescript_free) never frees a
\* box or its payload; and in any interleaving of box releases, tracker
\* releases and cleanup no block is freed both by a box destruction and by the
\* tracker: no block is freed twice.
C24_BoxesApartFromTracker ==
    [](C24_Disjoint /\ fault = {}) /\ [][C24_TrackerStep /\ C24_BoxStep]_vars

\* firescript_cleanup swept a tracked block, allocated where a destroyed box
\* had been, while a string box and its payload stay allocated
C24_Witness ==
    /\ ev.op = "cleanup" /\ ev.ret = 1
    /\ \E b \in SharedHandles, a \in SharedAddrs :
          /\ heap[b] = "live" /\ heap[box[b].data] = "live"
          /\ a \notin {b, box[b].data}
          /\ heap[a] = "freed" /\ hist[a].dtorCalls = 1

(***************************************************************************)
(* Claims about the lexer.                                                 *)
(***************************************************************************)
\* the comments of text s from position i on, in source order, as the claim
\* describes them: a line comment runs from its // up to the line end, which
\* is not part of it; a block comment runs from its /* through the first */
\* found; the text after a block comment is scanned from the character that
\* follows its */; an unclosed /* ends the scan
RECURSIVE CommentsFrom(_, _)
CommentsFrom(s, i) ==
    IF i >= Len(s) THEN <<>>
    ELSE IF substr(s, i, 2) = LineCommentMark
    THEN LET found == find(s, LineEnd, i)
             stop == IF found = npos THEN Len(s) ELSE found
         IN  <<CommentToken(substr(s, i, stop - i))>> \o CommentsFrom(s, stop)
    ELSE IF substr(s, i, 2) = BlockCommentOpen
    THEN LET close == find(s, BlockCommentClose, i)
         IN  IF close = npos THEN <<>>
             ELSE <<CommentToken(substr(s, i, close - i + 2))>>
                     \o CommentsFrom(s, close + 2)
    ELSE CommentsFrom(s, i + 1)

\* C25 (as stated): for every input text Lexer::lex returns one COMMENT token
\* per comment of the text, in source order, each with the comment's exact
\* text, a comment that starts at the character right after the closing */
\* of the previous one included; when a /* is not closed the tokens found
\* before it are returned.
C25_CommentTokens ==
    lexer.at = "returned" => lexer.tokens = CommentsFrom(lexer.input, 0)

(***************************************************************************)
(* Claims about the dynamic array.                                         *)
(***************************************************************************)

\* C8: in every array state reached from varray_create by any sequence of
\* varray_append, varray_insert, varray_remove, varray_resize and varray_clear,
\* with any of the reallocations failing, size <= capacity.
C8_SizeWithinCapacity == va.exists => va.size <= va.capacity

\* an append on a full array met a failing reallocation and left it full
C8_Witness ==
    /\ va.exists /\ va.size = va.capacity /\ va.capacity = 2
    /\ ev.op = "append" /\ ev.arg = 2 /\ ev.aux = 0

\* C9: when reallocation succeeds, a varray_append of e to an array holding S
\* leaves it holding S followed by e, with size |S| + 1: e is written at the
\* index equal to the old size and every element of S is kept, across a
\* growth too.  (N appends of e1..eN then give S followed by e1..eN.)
C9_AppendStep ==
    [][(ev'.op = "append" /\ ev'.aux = 1) =>
          /\ va'.size = va.size + 1
          /\ va'.data[va.size + 1] = ev'.ret
          /\ Contents(va') = Append(Contents(va), ev'.ret)]_vars

\* an append grew a full array of two elements to capacity 4 and added a third
C9_Witness ==
    /\ ev.op = "append" /\ ev.aux = 1 /\ ev.arg = 2
    /\ va.capacity = 4 /\ Contents(va) = <<1, 2, 1>>

\* C10: for 0 <= index <= size and successful reallocation,
\* varray_insert(va, index, e) on an array holding S leaves it holding
\* S[0..index) ++ [e] ++ S[index..size) with size one larger; an insert at
\* index = size gives the contents, size and capacity varray_append(va, e) gives.
C10_InsertStep ==
    [][(ev'.op = "insert" /\ ev'.arg <= va.size /\ ev'.aux = 1) =>
          LET S == Contents(va)
              index == ev'.arg
              e == ev'.ret
              appended == varray_append(va, e, TRUE)
          IN  /\ va'.size = va.size + 1
              /\ Contents(va') =
                    SubSeq(S, 1, index) \o <<e>> \o SubSeq(S, index + 1, va.size)
              /\ index = va.size =>
                    /\ Contents(va') = Contents(appended)
                    /\ va'.size = appended.size
                    /\ va'.capacity = appended.capacity]_vars

\* an insert at index 0 grew a full array of two elements and shifted both
C10_Witness ==
    /\ ev.op = "insert" /\ ev.aux = 1 /\ ev.arg = 0 /\ ev.ret = 2
    /\ va.capacity = 4 /\ Contents(va) = <<2, 1, 2>>

\* C11: for 0 <= index < size, varray_remove(va, index) on an array holding S
\* leaves it holding S[0..index) ++ S[index+1..size) with size one smaller,
\* whether or not the remove shrinks the capacity and whether or not the
\* shrinking reallocation succeeds.
C11_RemoveStep ==
    [][(ev'.op = "remove" /\ ev'.arg < va.size) =>
          LET S == Contents(va)
              index == ev'.arg
          IN  /\ va'.size = va.size - 1
              /\ Contents(va') = SubSeq(S, 1, index) \o SubSeq(S, index + 2, va.size)]_vars

\* a remove left one element in a block of 8 and its shrinking realloc failed
C11_Witness ==
    /\ ev.op = "remove" /\ ev.arg = 0 /\ ev.aux = 0
    /\ va.capacity = 8 /\ Contents(va) = <<2>>

\* the array a varray_remove at the index of the insert just made would give
\* holds what the array held before that insert, whatever the shrink does
RemoveRestores ==
    \A ok \in BOOLEAN :
        LET back == varray_remove(va', ev'.arg, ok)
        IN  /\ Contents(back) = Contents(va)
            /\ back.size = va.size

\* C12 (as stated): for every array holding S and every index with
\* 0 <= index <= size, varray_insert(va, index, e) followed by
\* varray_remove(va, index) gives an array holding S again, with the old size.
C12_InsertRemoveRestores ==
    [][(ev'.op = "insert" /\ ev'.arg <= va.size) => RemoveRestores]_vars

\* C12 (amended): the same, for the inserts whose growing reallocation, if
\* one is needed, succeeds.
C12_InsertRemoveRestoresIfGrown ==
    [][(ev'.op = "insert" /\ ev'.arg <= va.size /\ ev'.aux = 1) => RemoveRestores]_vars

\* an insert in the middle of a full array of two grew it and took effect
C12_Witness ==
    /\ ev.op = "insert" /\ ev.arg = 1 /\ ev.ret = 1 /\ ev.aux = 1
    /\ va.capacity = 4 /\ Contents(va) = <<2, 1, 2>>

\* C13 (as stated): after a valid varray_remove whose reallocation, if any,
\* succeeds, the capacity is halved if the new size is below one quarter of
\* the capacity as an exact fraction (4 * size < capacity) and capacity > 1,
\* and is unchanged otherwise.
C13_ShrinkBelowQuarter ==
    [][(ev'.op = "remove" /\ ev'.arg < va.size /\ ev'.aux = 1) =>
          va'.capacity = (IF 4 * va'.size < va.capacity /\ va.capacity > 1
                          THEN va.capacity \div 2
                          ELSE va.capacity)]_vars

\* C14: varray_insert with index > size and varray_remove with index >= size
\* are no-ops: size, capacity, element size and every slot of the array are
\* what they were before the call (the call returns the array it was given).
C14_OutOfRangeNoOp ==
    [][(\/ ev'.op = "insert" /\ ev'.arg > va.size
        \/ ev'.op = "remove" /\ ev'.arg >= va.size) => va' = va]_vars

\* a remove at index = size was made on an array of two and changed nothing
C14_Witness ==
    /\ ev.op = "remove" /\ ev.arg = 2
    /\ va.size = 2 /\ Contents(va) = <<1, 2>>

\* C15: when varray_append is called on a full array (size = capacity) and
\* the growing reallocation fails, the array is the original one, with size,
\* capacity and every element unchanged, and the element is not appended.
C15_FailedAppendNoOp ==
    [][(ev'.op = "append" /\ va.size = va.capacity /\ ev'.aux = 0) => va' = va]_vars

\* an append of 2 to a full array holding <<1>> met a failing reallocation
C15_Witness ==
    /\ ev.op = "append" /\ ev.ret = 2 /\ ev.aux = 0
    /\ va.capacity = 1 /\ Contents(va) = <<1>>

\* C19: capacity changes in two ways only.  A varray_append or varray_insert
\* changes it only on a full array, to max(1, 2 * capacity), so it never
\* decreases in a run of appends; a varray_remove changes it only when the
\* size it leaves is below one quarter of the capacity, to half of it;
\* varray_clear and calls with an out-of-range index leave it unchanged.
C19_CapacityStep ==
    [][LET grown == IF 2 * va.capacity > 1 THEN 2 * va.capacity ELSE 1
       IN  /\ ev'.op \in {"append", "insert"} =>
                 /\ va'.capacity >= va.capacity
                 /\ va'.capacity # va.capacity =>
                       va.size = va.capacity /\ va'.capacity = grown
           /\ (ev'.op = "insert" /\ ev'.arg > va.size) => va'.capacity = va.capacity
           /\ (ev'.op = "remove" /\ va'.capacity # va.capacity) =>
                 /\ ev'.arg < va.size
                 /\ 4 * va'.size < va.capacity
                 /\ va'.capacity = va.capacity \div 2
           /\ ev'.op = "clear" => va'.capacity = va.capacity]_vars

\* a remove left one element of two in a block of 8 and halved the block
C19_Witness ==
    /\ ev.op = "remove" /\ ev.ret = 8 /\ ev.aux = 1
    /\ va.capacity = 4 /\ Contents(va) = <<1>>

\* a varray_remove made right after a capacity-growing append does not shrink
\* the capacity, whatever valid index it is given
NoShrinkAfterGrowth ==
    (ev'.op = "append" /\ va'.capacity > va.capacity) =>
        \A index \in 0..(va'.size - 1), ok \in BOOLEAN :
            varray_remove(va', index, ok).capacity = va'.capacity

\* a varray_append made right after a capacity-shrinking remove does not grow
\* the capacity
NoGrowthAfterShrink ==
    (ev'.op = "remove" /\ va'.capacity < va.capacity) =>
        \A e \in Elems, ok \in BOOLEAN :
            varray_append(va', e, ok).capacity = va'.capacity

\* C20 (as stated): hysteresis, with its consequence that a strict
\* alternation of appends and removes reallocates at most once after its
\* first step: when the remove that follows an append has changed the
\* capacity, the append and the remove that come next change it no more.
C20_AlternationReallocatesOnce ==
    [][/\ NoShrinkAfterGrowth
       /\ NoGrowthAfterShrink
       /\ (ev.op = "append" /\ ev'.op = "remove" /\ va'.capacity # va.capacity) =>
              \A e \in Elems :
                  LET third == varray_append(va', e, TRUE)
                  IN  /\ third.capacity = va'.capacity
                      /\ \A index \in 0..(third.size - 1) :
                            varray_remove(third, index, TRUE).capacity
                               = third.capacity]_vars

\* C20 (amended): from every reachable array state, a varray_remove that
\* immediately follows a capacity-growing varray_append never shrinks the
\* capacity, and a varray_append that immediately follows a
\* capacity-shrinking varray_remove never grows it.
C20_Hysteresis == [][NoShrinkAfterGrowth /\ NoGrowthAfterShrink]_vars

\* a remove emptied a block of 4 and halved it
C20_Witness ==
    /\ ev.op = "remove" /\ ev.ret = 4 /\ ev.aux = 1
    /\ va.capacity = 2 /\ va.size = 0

====
